---- MODULE Spec2Model ----
(***************************************************************************)
(* Model of src/src/index.ts: the exponential slider's configuration       *)
(* resolver and its two transforms, stepToModel and modelToStep.           *)
(*                                                                         *)
(* Numbers.  The program computes in JavaScript numbers.  The model keeps  *)
(* every finite value as an exact fraction n/d in lowest terms (d > 0) and *)
(* keeps the three non-finite values the program can produce: NaN (0/0),   *)
(* +Infinity (1/0) and -Infinity (-1/0), with the IEEE-754 rules for them. *)
(* The rounding of the 53-bit mantissa is not modelled: every property     *)
(* below is about the exact values of the formulas.  Every zero divisor    *)
(* the program can form is a +0 (x - x, or a product of non-negative       *)
(* factors), so the sign of zero is not modelled either.                   *)
(***************************************************************************)
EXTENDS Integers, Sequences, FiniteSets, TLC

VARIABLES
    steps,          \* the steps argument
    bounds,         \* the bounds argument, [min, max]
    linear,         \* the linear argument, [maxLinear, linearPercent] or Absent
    config,         \* the ResolvedConfig held by the SliderCalculator, or NoConfig
    pc,             \* "init", "ready", "stepped", "back", "converted"
    via,            \* "function" or "closure": which entry point made the last call
    step,           \* the step argument of the last stepToModel call
    model,          \* the value the last stepToModel call returned
    modelArg,       \* the model argument of the last modelToStep call
    stepForModel    \* the value the last modelToStep call returned

vars == <<steps, bounds, linear, config, pc, via, step, model, modelArg, stepForModel>>

----------------------------------------------------------------------------
(* Bounds of the model *)

MaxSteps == 4
MaxMin == 2
MaxBound == 6
MaxLinearCap == 7

(* linear.linearPercent is divided by 100 (index.ts:134) and compared with 100
   (index.ts:139). *)
Hundred == 100

----------------------------------------------------------------------------
(* JavaScript numbers *)

RECURSIVE GCD(_, _)
GCD(a, b) == IF b = 0 THEN a ELSE GCD(b, a % b)

Abs(i) == IF i < 0 THEN -i ELSE i

Sgn(i) == IF i < 0 THEN -1 ELSE IF i > 0 THEN 1 ELSE 0

NaN == [n |-> 0, d |-> 0]
PosInf == [n |-> 1, d |-> 0]
NegInf == [n |-> -1, d |-> 0]

(* The fraction n/d, d # 0, in lowest terms with a positive denominator. *)
Rat(n, d) ==
    LET g == GCD(Abs(n), Abs(d))
    IN  [n |-> Sgn(d) * (n \div g), d |-> Abs(d) \div g]

Num(i) == [n |-> i, d |-> 1]

Zero == Num(0)
One == Num(1)
Half == Rat(1, 2)

IsNaN(x) == x.d = 0 /\ x.n = 0
IsFinite(x) == x.d > 0
IsZero(x) == x.d > 0 /\ x.n = 0
Inf(s) == IF s < 0 THEN NegInf ELSE PosInf

Neg(x) == [n |-> -(x.n), d |-> x.d]

(* x + y *)
Add(x, y) ==
    IF IsNaN(x) \/ IsNaN(y) THEN NaN
    ELSE IF IsFinite(x) /\ IsFinite(y) THEN Rat(x.n * y.d + y.n * x.d, x.d * y.d)
    ELSE IF IsFinite(x) THEN y
    ELSE IF IsFinite(y) THEN x
    ELSE IF x.n = y.n THEN x
    ELSE NaN

(* x - y *)
Sub(x, y) == Add(x, Neg(y))

(* x * y *)
Mul(x, y) ==
    IF IsNaN(x) \/ IsNaN(y) THEN NaN
    ELSE IF IsFinite(x) /\ IsFinite(y) THEN Rat(x.n * y.n, x.d * y.d)
    ELSE IF x.n = 0 \/ y.n = 0 THEN NaN
    ELSE Inf(Sgn(x.n) * Sgn(y.n))

(* x / y: a zero divisor gives NaN for 0/0 and an infinity otherwise. *)
Div(x, y) ==
    IF IsNaN(x) \/ IsNaN(y) THEN NaN
    ELSE IF IsFinite(x) /\ IsFinite(y) THEN
        IF y.n = 0 THEN (IF x.n = 0 THEN NaN ELSE Inf(x.n))
        ELSE Rat(x.n * y.d, x.d * y.n)
    ELSE IF IsFinite(x) THEN Zero
    ELSE IF IsFinite(y) THEN Inf(x.n * (IF y.n < 0 THEN -1 ELSE 1))
    ELSE NaN

(* x <= y and x < y: every comparison with NaN is false. *)
Le(x, y) ==
    IF IsNaN(x) \/ IsNaN(y) THEN FALSE
    ELSE IF IsFinite(x) /\ IsFinite(y) THEN x.n * y.d <= y.n * x.d
    ELSE IF IsFinite(x) THEN y.n > 0
    ELSE IF IsFinite(y) THEN x.n < 0
    ELSE x.n <= y.n

Lt(x, y) == Le(x, y) /\ x # y

Ge(x, y) == Le(y, x)

Gt(x, y) == Lt(y, x)

(* Math.min and Math.max: NaN when either argument is NaN. *)
MathMin(x, y) ==
    IF IsNaN(x) \/ IsNaN(y) THEN NaN ELSE IF Le(x, y) THEN x ELSE y

MathMax(x, y) ==
    IF IsNaN(x) \/ IsNaN(y) THEN NaN ELSE IF Le(x, y) THEN y ELSE x

(* Math.round: the nearest integer, a tie going up; NaN and the infinities
   are returned as they are. *)
MathRound(x) ==
    IF ~IsFinite(x) THEN x ELSE Num((2 * x.n + x.d) \div (2 * x.d))

(* Math.pow(x, 2) *)
MathPow2(x) == Mul(x, x)

(* A value c * sqrt(q): Math.sqrt's results are in general irrational, so the
   radicand q (finite, >= 0) is kept beside the coefficient c. *)
Surd(c, q) == [c |-> c, q |-> q]

(* Math.sqrt: NaN for NaN and for a negative argument. *)
MathSqrt(x) ==
    IF IsNaN(x) \/ Lt(x, Zero) THEN Surd(NaN, One)
    ELSE IF ~IsFinite(x) THEN Surd(PosInf, One)
    ELSE Surd(One, x)

SurdMul(s, y) == Surd(Mul(s.c, y), s.q)

SurdDiv(s, y) == Surd(Div(s.c, y), s.q)

(* The largest integer k with k <= t + c * sqrt(q), for finite t, c and q with
   c # 0 and q > 0, decided on squares. *)
FloorSurd(t, c, q) ==
    LET c2q == Mul(Mul(c, c), q)
        \* sqrt(q) <= q + 1, so |c * sqrt(q)| <= |c| * (q + 1) <= span
        span == MathRound(Mul(IF Lt(c, Zero) THEN Neg(c) ELSE c, Add(q, One))).n + 1
        ft == t.n \div t.d
        \* k <= t + c*sqrt(q)
        Below(k) ==
            LET u == Sub(Num(k), t)
            IN  IF Gt(c, Zero)
                THEN Le(u, Zero) \/ Le(Mul(u, u), c2q)
                ELSE Le(u, Zero) /\ Ge(Mul(u, u), c2q)
    IN  CHOOSE k \in (ft - span - 1)..(ft + span + 1) : Below(k) /\ ~Below(k + 1)

(* Math.round(a + s) for a number a and a surd s. *)
MathRoundSum(a, s) ==
    IF IsZero(s.q) \/ ~IsFinite(s.c) \/ IsZero(s.c) \/ ~IsFinite(a)
    THEN MathRound(Add(a, IF IsZero(s.q) THEN Mul(s.c, Zero) ELSE s.c))
    ELSE Num(FloorSurd(Add(a, Half), s.c, s.q))

----------------------------------------------------------------------------
(* The program: src/src/index.ts *)

(* An absent linear argument (linear?: LinearConfig left undefined). *)
Absent == [absent |-> TRUE]

IsAbsent(l) == "absent" \in DOMAIN l

(* No SliderCalculator has been built yet. *)
NoConfig == [none |-> TRUE]

HasConfig(c) == "steps" \in DOMAIN c

limitBounds(value, b) == MathMin(MathMax(value, b.min), b.max)

expRange(value, min, max) ==
    LET range == Sub(max, min)
    IN  Add(Mul(MathPow2(Div(value, range)), range), min)

rootRange(value, min, max) ==
    LET range == Sub(max, min)
    IN  SurdMul(MathSqrt(Div(MathMax(Zero, Sub(value, min)), range)), range)

(* resolveConfig without the clamp of linearAbsolute to the percentage's share
   of bounds.max. *)
resolveConfig_NoClamp(st, bnd, lin) ==
    LET l == IF IsAbsent(lin)
             THEN [maxLinear |-> Zero, linearPercent |-> Zero]
             ELSE lin
        linearPercent == Div(l.linearPercent, Num(Hundred))
        max == IF l.linearPercent = Num(Hundred) THEN l.maxLinear ELSE bnd.max
    IN  [steps |-> st,
         linearAbsolute |-> l.maxLinear,
         linearPercent |-> linearPercent,
         min |-> bnd.min,
         max |-> max,
         range |-> Sub(max, bnd.min)]

(* resolveConfig without the switch of max to maxLinear at linearPercent 100. *)
resolveConfig_MaxIsBoundsMax(st, bnd, lin) ==
    LET l == IF IsAbsent(lin)
             THEN [maxLinear |-> Zero, linearPercent |-> Zero]
             ELSE lin
        linearPercent == Div(l.linearPercent, Num(Hundred))
        linearAbsolute ==
            MathMin(l.maxLinear, MathRound(Mul(bnd.max, linearPercent)))
    IN  [steps |-> st,
         linearAbsolute |-> linearAbsolute,
         linearPercent |-> linearPercent,
         min |-> bnd.min,
         max |-> bnd.max,
         range |-> Sub(bnd.max, bnd.min)]

resolveConfig(st, bnd, lin) ==
    LET l == IF IsAbsent(lin)
             THEN [maxLinear |-> Zero, linearPercent |-> Zero]
             ELSE lin
        linearPercent == Div(l.linearPercent, Num(Hundred))
        linearAbsolute ==
            MathMin(l.maxLinear, MathRound(Mul(bnd.max, linearPercent)))
        max == IF l.linearPercent = Num(Hundred) THEN l.maxLinear ELSE bnd.max
    IN  [steps |-> st,
         linearAbsolute |-> linearAbsolute,
         linearPercent |-> linearPercent,
         min |-> bnd.min,
         max |-> max,
         range |-> Sub(max, bnd.min)]

(* index.ts:53,55: the step clamped into [0, steps], and its share of steps. *)
ClampStep(s, c) == limitBounds(s, [min |-> Zero, max |-> c.steps])

Percent(s, c) == Div(ClampStep(s, c), c.steps)

(* index.ts:58: the return of the branch linearAbsolute >= max. *)
FullLinearBranch(s, c) == Add(Mul(Percent(s, c), c.range), c.min)

(* index.ts:62-64: the return of the branch percent <= linearPercent. *)
LinearBranch(s, c) ==
    LET percentOfAbsolute ==
            IF Gt(c.linearPercent, Zero)
            THEN Div(Percent(s, c), c.linearPercent)
            ELSE Zero
    IN  Add(Mul(percentOfAbsolute, c.linearAbsolute), c.min)

(* index.ts:73: the width of the exponential region. *)
RangeExponential(c) == Sub(c.range, c.linearAbsolute)

(* index.ts:67-80: the return of the remaining, exponential branch. *)
ExponentialBranch(s, c) ==
    LET lin == IF Gt(c.linearPercent, Zero)
               THEN Mul(Div(MathMin(Percent(s, c), c.linearPercent),
                            c.linearPercent),
                        c.linearAbsolute)
               ELSE Zero
        rangeExponential == RangeExponential(c)
        remainder == Sub(ClampStep(s, c), Mul(c.steps, c.linearPercent))
        expPercent == Sub(One, c.linearPercent)
        percentOfMax == Div(remainder, Mul(c.steps, expPercent))
        expVal == Mul(percentOfMax, rangeExponential)
    IN  Add(Add(lin, expRange(expVal, Zero, rangeExponential)), c.min)

(* Which return of stepToModelInternal a step takes. *)
StepBranch(s, c) ==
    IF Ge(c.linearAbsolute, c.max) THEN "fullLinear"
    ELSE IF Le(Percent(s, c), c.linearPercent) THEN "linear"
    ELSE "exponential"

stepToModelInternal(s, c) ==
    IF StepBranch(s, c) = "fullLinear" THEN FullLinearBranch(s, c)
    ELSE IF StepBranch(s, c) = "linear" THEN LinearBranch(s, c)
    ELSE ExponentialBranch(s, c)

stepToModel(s, st, bnd, lin) == stepToModelInternal(s, resolveConfig(st, bnd, lin))

(* index.ts:97,99: the model clamped into [min, max], measured from min. *)
ActualValue(m, c) ==
    MathMax(Sub(limitBounds(m, [min |-> c.min, max |-> c.max]), c.min), Zero)

(* Which return of modelToStepInternal a model value takes. *)
ModelBranch(m, c) ==
    IF Ge(c.linearAbsolute, c.max) THEN "fullLinear"
    ELSE IF Gt(c.linearAbsolute, Zero) /\ Le(ActualValue(m, c), c.linearAbsolute)
    THEN "linear"
    ELSE "exponential"

modelToStepInternal(m, c) ==
    LET actualValue == ActualValue(m, c)
    IN  IF ModelBranch(m, c) = "fullLinear"
        THEN MathRound(Mul(Div(actualValue, c.range), c.steps))
        ELSE IF ModelBranch(m, c) = "linear"
        THEN MathRound(Mul(Mul(Div(actualValue, c.linearAbsolute),
                               c.linearPercent),
                           c.steps))
        ELSE LET remainderValue == Sub(actualValue, c.linearAbsolute)
                 rangeExponential == RangeExponential(c)
                 dynamicPercent == Sub(One, c.linearPercent)
                 percentOfMax ==
                     SurdDiv(rootRange(remainderValue, Zero, rangeExponential),
                             rangeExponential)
             IN  MathRoundSum(Mul(c.steps, c.linearPercent),
                              SurdMul(SurdMul(percentOfMax, c.steps),
                                      dynamicPercent))

modelToStep(m, st, bnd, lin) == modelToStepInternal(m, resolveConfig(st, bnd, lin))

----------------------------------------------------------------------------
(* The state machine.  The arguments are fixed; a conversion is called either
   through an exported function, which resolves the configuration itself, or
   through a closure of a SliderCalculator built from the arguments, and
   the model returned by stepToModel may be converted back as testBackAndForth
   does.  The functions are pure and the configuration is never modified, so
   a behaviour holds one call (and its way back): later calls would start
   from the same arguments and the same configuration. *)

(* No value yet. *)
None == [none |-> TRUE]

PercentSet == {0, 50, 75, Hundred}

StepsSet == {Num(k) : k \in 0..MaxSteps}

(* bounds with max >= min *)
BoundsSet ==
    {[min |-> Num(p[1]), max |-> Num(p[2])] :
        p \in {q \in (0..MaxMin) \X (0..MaxBound) : q[1] <= q[2]}}

LinearSet ==
    {Absent} \cup
    {[maxLinear |-> Num(ml), linearPercent |-> Num(p)] :
        ml \in (-1)..MaxLinearCap, p \in PercentSet}

(* The step arguments: every step of the slider and one beyond each end. *)
StepInputs == {Num(k) : k \in (-1)..(MaxSteps + 1)}

(* The model arguments: every integer from below the least min to above the
   greatest max. *)
ModelInputs == {Num(k) : k \in (-1)..(MaxLinearCap + 1)}

Init ==
    /\ steps \in StepsSet
    /\ bounds \in BoundsSet
    /\ linear \in LinearSet
    /\ config = NoConfig
    /\ pc = "init"
    /\ via = "none"
    /\ step = None
    /\ model = None
    /\ modelArg = None
    /\ stepForModel = None

(* useExponentialSlider(steps, bounds, linear) *)
UseExponentialSlider ==
    /\ pc = "init"
    /\ config' = resolveConfig(steps, bounds, linear)
    /\ pc' = "ready"
    /\ UNCHANGED <<steps, bounds, linear, via, step, model, modelArg, stepForModel>>

(* stepToModel(s, steps, bounds, linear) *)
StepToModel(s) ==
    /\ pc = "init"
    /\ step' = s
    /\ model' = stepToModel(s, steps, bounds, linear)
    /\ via' = "function"
    /\ pc' = "stepped"
    /\ modelArg' = None
    /\ stepForModel' = None
    /\ UNCHANGED <<steps, bounds, linear, config>>

(* calculator.stepToModel(s) *)
CalcStepToModel(s) ==
    /\ pc = "ready"
    /\ step' = s
    /\ model' = stepToModelInternal(s, config)
    /\ via' = "closure"
    /\ pc' = "stepped"
    /\ modelArg' = None
    /\ stepForModel' = None
    /\ UNCHANGED <<steps, bounds, linear, config>>

(* modelToStep(m, steps, bounds, linear) *)
ModelToStep(m) ==
    /\ pc = "init"
    /\ modelArg' = m
    /\ stepForModel' = modelToStep(m, steps, bounds, linear)
    /\ via' = "function"
    /\ pc' = "converted"
    /\ step' = None
    /\ model' = None
    /\ UNCHANGED <<steps, bounds, linear, config>>

(* calculator.modelToStep(m) *)
CalcModelToStep(m) ==
    /\ pc = "ready"
    /\ modelArg' = m
    /\ stepForModel' = modelToStepInternal(m, config)
    /\ via' = "closure"
    /\ pc' = "converted"
    /\ step' = None
    /\ model' = None
    /\ UNCHANGED <<steps, bounds, linear, config>>

(* testBackAndForth, first test: modelToStep(model, steps, bounds, linear) on
   the model that stepToModel has just returned. *)
BackToStep ==
    /\ pc = "stepped"
    /\ via = "function"
    /\ modelArg' = model
    /\ stepForModel' = modelToStep(model, steps, bounds, linear)
    /\ pc' = "back"
    /\ UNCHANGED <<steps, bounds, linear, config, via, step, model>>

(* testBackAndForth, second test: the same through the calculator. *)
CalcBackToStep ==
    /\ pc = "stepped"
    /\ via = "closure"
    /\ modelArg' = model
    /\ stepForModel' = modelToStepInternal(model, config)
    /\ pc' = "back"
    /\ UNCHANGED <<steps, bounds, linear, config, via, step, model>>

Next ==
    \/ UseExponentialSlider
    \/ \E s \in StepInputs : StepToModel(s)
    \/ \E s \in StepInputs : CalcStepToModel(s)
    \/ \E m \in ModelInputs : ModelToStep(m)
    \/ \E m \in ModelInputs : CalcModelToStep(m)
    \/ BackToStep
    \/ CalcBackToStep

Spec == Init /\ [][Next]_vars

----------------------------------------------------------------------------
(* Properties *)

(* The configuration both entry points convert with: the functions resolve it
   on every call (index.ts:45, 89), the calculator once (index.ts:31). *)
Cfg == resolveConfig(steps, bounds, linear)

(* Arguments the library is meant for: at least one step, bounds and a
   resolved value range that are not empty (max > min), and a positive linear
   cap when a linear region is asked for.  C1 to C6 and C10 are stated for
   these arguments, which are among the configurations each claim covers: a
   violation found with them is a violation of the claim. *)
WellFormedArgs ==
    /\ Gt(steps, Zero)
    /\ Lt(bounds.min, bounds.max)
    /\ Gt(Cfg.range, Zero)
    /\ (IsAbsent(linear) \/ Gt(linear.maxLinear, Zero))

(* stepToModel has returned `model` for `step`. *)
Stepped == pc \in {"stepped", "back"}

(* modelToStep has returned `stepForModel` for `modelArg`. *)
Converted == pc \in {"converted", "back"}

(* `step` is a step of the slider, 0 <= step <= steps. *)
StepInRange == Le(Zero, step) /\ Le(step, steps)

(* C1: round trip.  For every configuration and every integer step with
   0 <= step <= steps, modelToStep(stepToModel(step)) = step, through the
   functions and through the calculator's closures.  Stated for well-formed
   arguments, which are among the claim's configurations. *)
C1_RoundTrip ==
    (pc = "back" /\ WellFormedArgs /\ StepInRange) => stepForModel = step

(* C2: stepToModel endpoints.  With steps > 0, stepToModel returns exactly
   config.min at step 0 and exactly config.max at step = steps. *)
C2_StepEndpoints ==
    (Stepped /\ WellFormedArgs) =>
        /\ (step = Zero => model = Cfg.min)
        /\ (step = steps => model = Cfg.max)

(* C3: modelToStep endpoints.  modelToStep returns 0 for every model <=
   config.min and steps for every model >= config.max. *)
C3_ModelEndpoints ==
    (Converted /\ WellFormedArgs) =>
        /\ (Le(modelArg, Cfg.min) => stepForModel = Zero)
        /\ (Ge(modelArg, Cfg.max) => stepForModel = steps)

(* C4: stepToModel range.  With bounds.max >= bounds.min and steps > 0, the
   value stepToModel returns lies in [config.min, config.max] for every step
   argument, in range or not. *)
C4_ModelInBounds ==
    (Stepped /\ WellFormedArgs) => (Le(Cfg.min, model) /\ Le(model, Cfg.max))

(* C5: stepToModel is monotone.  For steps s1 <= s2 in [0, steps],
   stepToModel(s1) <= stepToModel(s2); s1 is the step of the call made, s2
   every later step of the slider. *)
C5_Monotone ==
    (Stepped /\ WellFormedArgs /\ StepInRange) =>
        \A s2 \in StepInputs :
            (Le(step, s2) /\ Le(s2, steps)) =>
                Le(model, stepToModelInternal(s2, Cfg))

(* The linear argument asks for a fully linear slider: linearPercent = 100. *)
FullyLinearArgs == ~IsAbsent(linear) /\ linear.linearPercent = Num(Hundred)

(* C6: fully linear mode.  With linearPercent = 100, for any maxLinear (also
   one above bounds.max), the resolved max is maxLinear, stepToModel returns
   (step / steps) * range + min with range = maxLinear - bounds.min for every
   step in [0, steps], modelToStep returns round(((model - min) / range) *
   steps), and neither takes its exponential branch. *)
C6_FullyLinear ==
    (FullyLinearArgs /\ WellFormedArgs) =>
        LET range == Sub(linear.maxLinear, bounds.min)
        IN  /\ Cfg.max = linear.maxLinear
            /\ (Stepped /\ StepInRange) =>
                  /\ model = Add(Mul(Div(step, steps), range), bounds.min)
                  /\ StepBranch(step, Cfg) # "exponential"
            /\ (pc = "converted" /\ Le(bounds.min, modelArg)
                                 /\ Le(modelArg, linear.maxLinear)) =>
                  /\ stepForModel =
                        MathRound(Mul(Div(Sub(modelArg, bounds.min), range), steps))
                  /\ ModelBranch(modelArg, Cfg) # "exponential"

(* C7: division by zero is special-cased.  When steps = 0, or when
   linearPercent = 0 (a divisor of both linear formulas), stepToModel and
   modelToStep return a number: never NaN, never an infinity.  Stated for
   bounds with max > min. *)
C7_NoDivisionByZero ==
    ((steps = Zero \/ Cfg.linearPercent = Zero) /\ Lt(bounds.min, bounds.max)) =>
        /\ Stepped => IsFinite(model)
        /\ Converted => IsFinite(stepForModel)

(* C8 as claimed: every ResolvedConfig satisfies 0 <= linearAbsolute <= max,
   for linearPercent in 0..100 and any maxLinear, and for the absent linear
   argument. *)
C8_AnyMaxLinear ==
    HasConfig(config) =>
        (Le(Zero, config.linearAbsolute) /\ Le(config.linearAbsolute, config.max))

(* C8, amended: every ResolvedConfig satisfies 0 <= linearAbsolute <= max, for
   integer bounds.max >= 0, linearPercent in 0..100 and any maxLinear >= 0, and
   for the absent linear argument. *)
C8_ResolverInvariant ==
    (HasConfig(config) /\ (IsAbsent(linear) \/ Ge(linear.maxLinear, Zero))) =>
        (Le(Zero, config.linearAbsolute) /\ Le(config.linearAbsolute, config.max))

(* A calculator whose linear cap was clamped: maxLinear is above the
   percentage's share of bounds.max ('Very low max', index.ts:231-249). *)
C8_Witness ==
    /\ HasConfig(config)
    /\ ~IsAbsent(linear)
    /\ Lt(linear.linearPercent, Num(Hundred))
    /\ Gt(linear.maxLinear, bounds.max)
    /\ Gt(config.linearAbsolute, Zero)
    /\ Lt(config.linearAbsolute, config.max)

(* C9: the record resolveConfig returns.  steps = steps, min = bounds.min,
   linearPercent = linear.linearPercent / 100, linearAbsolute = min(maxLinear,
   round(bounds.max * linearPercent / 100)), max = maxLinear when
   linear.linearPercent is 100 and bounds.max otherwise, range = max -
   bounds.min; an absent linear argument resolves as maxLinear 0, linearPercent
   0.  The expected record is computed on the integers of the arguments. *)
C9_ResolveConfig ==
    HasConfig(config) =>
        LET ml == IF IsAbsent(linear) THEN 0 ELSE linear.maxLinear.n
            p == IF IsAbsent(linear) THEN 0 ELSE linear.linearPercent.n
            \* the integer nearest to bounds.max * p / 100, a tie going up
            share == (2 * bounds.max.n * p + Hundred) \div (2 * Hundred)
            max == IF p = Hundred THEN ml ELSE bounds.max.n
        IN  /\ config.steps = steps
            /\ config.min = bounds.min
            /\ config.linearPercent = Rat(p, Hundred)
            /\ config.linearAbsolute = Num(IF ml < share THEN ml ELSE share)
            /\ config.max = Num(max)
            /\ config.range = Num(max - bounds.min.n)
            /\ IsAbsent(linear) =>
                  /\ config.linearAbsolute = Zero
                  /\ config.linearPercent = Zero
                  /\ config.max = bounds.max

(* A calculator resolved from linearPercent = 100 with a cap inside the
   bounds ('Linear percent 100', index.ts:212-230): max is maxLinear. *)
C9_Witness ==
    /\ HasConfig(config)
    /\ FullyLinearArgs
    /\ Lt(bounds.min, linear.maxLinear)
    /\ Lt(linear.maxLinear, bounds.max)
    /\ config.max = linear.maxLinear
    /\ config.range = Sub(linear.maxLinear, bounds.min)

(* x === y on numbers: NaN equals nothing. *)
NumEq(x, y) == ~IsNaN(x) /\ ~IsNaN(y) /\ x = y

(* C10: continuity at the seam.  In the mixed regime (linearAbsolute < max),
   at the step steps * linearPercent, the linear branch's formula and the
   exponential branch's formula give the same value, linearAbsolute + min.
   Stated for a seam before the last step (linearPercent < 100). *)
C10_SeamContinuity ==
    (Stepped /\ WellFormedArgs /\ Lt(Cfg.linearAbsolute, Cfg.max)
             /\ Lt(Cfg.linearPercent, One)
             /\ step = Mul(steps, Cfg.linearPercent)) =>
        /\ NumEq(LinearBranch(step, Cfg), ExponentialBranch(step, Cfg))
        /\ NumEq(LinearBranch(step, Cfg), Add(Cfg.linearAbsolute, Cfg.min))

(* A conversion has run through its exponential branch (index.ts:67-80 for
   stepToModel, index.ts:113-122 for modelToStep). *)
ReachedExponential ==
    \/ Stepped /\ StepBranch(step, Cfg) = "exponential"
    \/ Converted /\ ModelBranch(modelArg, Cfg) = "exponential"

(* C11: the exponential region's width is positive wherever it divides.  For
   steps > 0, bounds.max >= bounds.min >= 0, maxLinear >= 0 and
   0 <= linearPercent < 100, whenever stepToModel or modelToStep reaches its
   exponential branch, rangeExponential = range - linearAbsolute is strictly
   greater than 0, also when bounds.min > 0 makes range smaller than max.
   Stated for well-formed arguments (bounds.min < bounds.max), which are
   among the claim's configurations. *)
C11_ExponentialWidthPositive ==
    (ReachedExponential /\ WellFormedArgs /\ Lt(Cfg.linearPercent, One)) =>
        Gt(RangeExponential(Cfg), Zero)

====
